---- MODULE Spec2Model ----
(***************************************************************************)
(* The AI business platform: the view router (AIBusinessPlatform), the     *)
(* wizard flow controller (BusinessWizard), the plan synthesizer           *)
(* (generatePlan), the client of the completion relay (callClaudeAPI) and  *)
(* the completion relay endpoint (POST /api/claude).                       *)
(*                                                                         *)
(* A React component instance owns its state only while it is mounted.     *)
(* BusinessWizard is mounted exactly while currentView is                  *)
(* "business-wizard"; every mount is a new instance that starts from the   *)
(* useState initial values.  `inst` numbers the instances; `wizard` is the *)
(* state of the mounted instance, and the initial values while none is     *)
(* mounted (React discards the state of an unmounted component and drops   *)
(* the state updates addressed to it).  A generatePlan call that is        *)
(* awaiting the relay outlives the instance that issued it: it keeps its   *)
(* `data` argument and the parent's onComplete callback in its closure.    *)
(*                                                                         *)
(* Strings that the code builds with template literals are sequences of    *)
(* string pieces (their concatenation is the string); JSON values are      *)
(* records [type, obj] where obj maps the keys of an object to contents.   *)
(***************************************************************************)
EXTENDS Integers, Sequences, FiniteSets, TLC

VARIABLES
    currentView,    \* AIBusinessPlatform: useState('home')
    completedData,  \* AIBusinessPlatform: useState(null)
    inst,           \* number of BusinessWizard instances mounted so far
    wizard,         \* BusinessWizard state: currentStep, formData, generatedPlan, loading
    pending,        \* generatePlan calls awaiting callClaudeAPI: [inst, data]
    genCalls,       \* history: generatePlan calls issued per instance
    relayRequests,  \* history: fetch('/api/claude') requests of generatePlan per instance
    exited,         \* history: instances left through "Back to Home" with no plan produced
    lastOp,         \* history: the handler that ran last, the step it ran at, and
                    \* for a generatePlan resolution what it produced
    http,           \* the last exchange served by a route handler: the route,
                    \* the request and the response
    assistant,      \* AIAssistant of the mounted wizard: suggestions, loading
    asking          \* generateSuggestions calls awaiting callClaudeAPI: the
                    \* instances whose assistant issued them

vars == <<currentView, completedData, inst, wizard, pending, genCalls,
          relayRequests, exited, lastOp, http, assistant, asking>>

----------------------------------------------------------------------------
(* Bounds *)

\* number of wizard sessions (BusinessWizard mounts) explored
MaxSessions == 2

Instances == 1..MaxSessions

----------------------------------------------------------------------------
(* JSON values *)

EmptyObj == [k \in {} |-> ""]

JNull == [type |-> "null", obj |-> EmptyObj]

JArray == [type |-> "array", obj |-> EmptyObj]

JObject(f) == [type |-> "object", obj |-> f]

\* JavaScript truthiness of the JSON values above: null is falsy, every
\* object and array (also the empty ones) is truthy.
Truthy(v) == v.type # "null"

----------------------------------------------------------------------------
(* The wizard's step definitions and the fields the user can fill *)

businessWizardSteps ==
    << [id |-> 1, fields |-> <<"businessName", "industry", "targetMarket", "currentRevenue">>],
       [id |-> 2, fields |-> <<"primaryChallenges", "timeWasters", "costCenters">>],
       [id |-> 3, fields |-> <<"competitors", "differentiators", "marketPosition">>],
       [id |-> 4, fields |-> <<"aiGoals", "budget", "timeline", "teamReadiness">>],
       [id |-> 5, fields |-> <<"kpis", "successCriteria", "reportingFrequency">>] >>

N == Len(businessWizardSteps)

\* The fields rendered by the form of a step (BusinessStep1 .. BusinessStep5;
\* the default branch renders BusinessStep1).
StepFields(step) ==
    LET s == IF step \in 1..N THEN step ELSE 1
    IN  {businessWizardSteps[s].fields[i] : i \in 1..Len(businessWizardSteps[s].fields)}

\* The values entered in the explored runs: a business name typed into the
\* text input (and typed over) and an industry picked from the select of
\* step 1.
FieldValues(key) ==
    CASE key = "businessName" -> {"Acme", "Bolt"}
      [] key = "industry" -> {"Retail"}
      [] OTHER -> {}

\* The tag fields (FormField type "tags") and the texts typed into their
\* input before Enter, as sequences of characters.
TagFields == {"primaryChallenges"}

TagInputs == { <<"a">>, <<" ", "a", " ">>, <<"b">>, <<"c">>, <<" ">>, << >> }

\* String.prototype.trim on a sequence of characters
RECURSIVE TrimLeft(_)
TrimLeft(t) ==
    IF t # << >> /\ Head(t) = " " THEN TrimLeft(Tail(t)) ELSE t

RECURSIVE TrimRight(_)
TrimRight(t) ==
    IF t # << >> /\ t[Len(t)] = " " THEN TrimRight(SubSeq(t, 1, Len(t) - 1)) ELSE t

Trim(t) == TrimRight(TrimLeft(t))

\* value?.includes(x), value || []
Includes(list, x) == \E i \in 1..Len(list) : list[i] = x

\* The tag appended without looking for it in the list.
TagEnter_noDedup(data, key, typed) ==
    LET value == IF key \in DOMAIN data THEN data[key] ELSE << >>
        newValue == Trim(typed)
    IN  IF newValue # << >>
          THEN [called |-> TRUE, list |-> Append(value, newValue)]
        ELSE [called |-> FALSE, list |-> value]

\* onKeyPress with Enter in a tag input holding `typed`: the list handed to
\* onChange, or no call of onChange at all.
TagEnter(data, key, typed) ==
    LET value == IF key \in DOMAIN data THEN data[key] ELSE << >>
        newValue == Trim(typed)
    IN  IF newValue # << >> /\ ~Includes(value, newValue)
          THEN [called |-> TRUE, list |-> Append(value, newValue)]
        ELSE [called |-> FALSE, list |-> value]

\* value.filter((_, i) => i !== index), index counted from 0
TagRemove(value, index) ==
    LET keep == {i \in 1..Len(value) : i - 1 # index}
        F[i \in 0..Len(value)] ==
            IF i = 0 THEN << >>
            ELSE IF i \in keep THEN Append(F[i - 1], value[i]) ELSE F[i - 1]
    IN  F[Len(value)]

----------------------------------------------------------------------------
(* The completion relay endpoint: POST /api/claude *)

\* What the provider (api.anthropic.com) does with the one request the relay
\* sends it: the fetch rejects, the status is not ok (with an error body),
\* or not ok with an error body that cannot be read ("statusbody"),
\* or the status is ok with a JSON body whose content list is missing,
\* empty, starts with a segment that has no text, or starts with a text
\* segment; or the ok body is not JSON at all.
ResponseTexts ==
    { "{\"executiveSummary\":\"s\",\"quickWins\":[q],\"strategicInitiatives\":[i],\"implementationRoadmap\":{r},\"techStack\":[t],\"successMetrics\":[m]}",
      "{\"executiveSummary\":\"s\"}",
      "{}",
      "[]",
      "null",
      "Here is your strategy: {\"executiveSummary\":\"s\"}" }

ProviderOutcomes ==
    { [kind |-> "network", status |-> 0, text |-> "fetch failed"],
      [kind |-> "status", status |-> 401, text |-> "invalid x-api-key"],
      [kind |-> "status", status |-> 529, text |-> "overloaded"],
      [kind |-> "statusbody", status |-> 502, text |-> "terminated"],
      [kind |-> "badjson", status |-> 200, text |-> "<html>"],
      [kind |-> "nocontent", status |-> 200, text |-> ""],
      [kind |-> "empty", status |-> 200, text |-> ""],
      [kind |-> "notext", status |-> 200, text |-> ""] }
    \cup { [kind |-> "text", status |-> 200, text |-> t] : t \in ResponseTexts \cup {""} }

\* `${response.status}` in a template literal
StatusText(status) ==
    CASE status = 401 -> "401"
      [] status = 529 -> "529"
      [] status = 200 -> "200"
      [] OTHER -> "0"

\* The first segment's text with no placeholder.
FirstText_raw(p) == p.text

\* data.content[0]?.text || 'No response generated'
FirstText(p) ==
    IF p.kind = "text" /\ p.text # "" THEN p.text ELSE "No response generated"

\* The bodies of the requests the relay receives: JSON with a prompt (what
\* callClaudeAPI sends), a JSON object with no prompt, the JSON value null
\* (destructuring it throws), and a body that is not JSON.
RelayBodies == {"prompt", "noprompt", "null", "unreadable"}

\* A provider request sent whatever the request body and the credential.
ProviderRequests_always(req, keyConfigured) == 1

\* The number of fetch calls to the provider: the one fetch comes after the
\* request body was read and destructured and the credential was found.
ProviderRequests(req, keyConfigured) ==
    IF req \in {"unreadable", "null"} \/ ~keyConfigured THEN 0 ELSE 1

\* The handler: the response it gives and the number of provider requests
\* it sent.  error is error.message of whatever was thrown inside the try.
ClaudeRoutePOST(req, keyConfigured, p) ==
    LET sent == ProviderRequests(req, keyConfigured)
        failure(msg) ==
            [status |-> 500, sent |-> sent,
             body |-> [success |-> FALSE, error |-> msg, fallback |-> TRUE]]
    IN  IF req = "unreadable"
          THEN failure(<<"Unexpected end of JSON input">>)
        ELSE IF req = "null"
          THEN failure(<<"Cannot destructure property 'prompt' of null">>)
        ELSE IF ~keyConfigured
          THEN failure(<<"ANTHROPIC_API_KEY not configured">>)
        ELSE IF p.kind = "network"
          THEN failure(<<p.text>>)
        ELSE IF p.kind = "statusbody"
          THEN failure(<<p.text>>)
        ELSE IF p.kind = "status"
          THEN failure(<<"Claude API error: ", StatusText(p.status)>>)
        ELSE IF p.kind = "badjson"
          THEN failure(<<"Unexpected token < in JSON at position 0">>)
        ELSE IF p.kind = "nocontent"
          THEN failure(<<"Cannot read properties of undefined (reading '0')">>)
        ELSE [status |-> 200, sent |-> sent,
              body |-> [success |-> TRUE, content |-> FirstText(p)]]

----------------------------------------------------------------------------
(* The client of the relay: callClaudeAPI *)

\* The outcomes of fetch('/api/claude') in the browser: the fetch rejects
\* (the relay is unreachable), or the relay's response arrives.
RelayOutcomes ==
    { [arrived |-> FALSE, keyConfigured |-> FALSE,
       provider |-> [kind |-> "network", status |-> 0, text |-> "fetch failed"]] }
    \cup { [arrived |-> TRUE, keyConfigured |-> k, provider |-> p] :
             k \in BOOLEAN, p \in ProviderOutcomes }

\* The result of callClaudeAPI: the returned content, or the thrown error.
callClaudeAPI(o) ==
    IF ~o.arrived
      THEN [ok |-> FALSE, value |-> "Failed to fetch"]
    ELSE LET data == ClaudeRoutePOST("prompt", o.keyConfigured, o.provider).body
         IN  IF data.success THEN [ok |-> TRUE, value |-> data.content]
             ELSE IF data.fallback THEN [ok |-> FALSE, value |-> "API_FALLBACK"]
             ELSE [ok |-> FALSE, value |-> "Unknown error"]

----------------------------------------------------------------------------
(* The plan synthesizer: generatePlan *)

\* The sections the prompt asks the model to return.
PlanSections ==
    {"executiveSummary", "quickWins", "strategicInitiatives",
     "implementationRoadmap", "techStack", "successMetrics"}

AiQuickWin ==
    [action |-> "a", impact |-> "i", tools |-> <<"t">>, timeframe |-> "30-90 days"]

AiInitiative ==
    [initiative |-> "n", description |-> "d", timeframe |-> "3-12 months",
     budget |-> "b", roi |-> "r"]

\* JSON.parse on the texts of ResponseTexts (and on the relay's placeholder):
\* the value, or a SyntaxError.
JSONparse(text) ==
    CASE text = "{\"executiveSummary\":\"s\",\"quickWins\":[q],\"strategicInitiatives\":[i],\"implementationRoadmap\":{r},\"techStack\":[t],\"successMetrics\":[m]}" ->
           [ok |-> TRUE,
            value |-> JObject([executiveSummary |-> <<"s">>,
                               quickWins |-> <<AiQuickWin>>,
                               strategicInitiatives |-> <<AiInitiative>>,
                               implementationRoadmap |-> <<"r">>,
                               techStack |-> <<"t">>,
                               successMetrics |-> <<"m">>])]
      [] text = "{\"executiveSummary\":\"s\"}" ->
           [ok |-> TRUE, value |-> JObject([executiveSummary |-> <<"s">>])]
      [] text = "{}" -> [ok |-> TRUE, value |-> JObject(EmptyObj)]
      [] text = "[]" -> [ok |-> TRUE, value |-> JArray]
      [] text = "null" -> [ok |-> TRUE, value |-> JNull]
      [] OTHER -> [ok |-> FALSE, value |-> JNull]

\* `${data.key}` in a template literal: an absent key reads undefined.
Interpolate(data, key) ==
    IF key \in DOMAIN data THEN data[key] ELSE "undefined"

\* The fallback plan of the catch branch.
fallbackPlan(data) ==
    [executiveSummary |->
        <<"Transform ", Interpolate(data, "businessName"), " into an AI-powered ",
          "industry",
          " leader through strategic automation and intelligent decision-making systems.">>,
     quickWins |->
        << [action |-> "Implement AI chatbot for customer service",
            impact |-> "24/7 customer support with 60% cost reduction",
            tools |-> <<"ChatGPT API", "Intercom", "Zendesk">>,
            timeframe |-> "30 days"],
           [action |-> "Automate data entry and reporting",
            impact |-> "Save 15+ hours per week on manual tasks",
            tools |-> <<"Zapier", "Microsoft Power Automate", "Google Apps Script">>,
            timeframe |-> "45 days"] >>,
     strategicInitiatives |->
        << [initiative |-> "Predictive Analytics Platform",
            description |-> "Implement AI-driven analytics to predict customer behavior and optimize business decisions",
            timeframe |-> "3-6 months",
            budget |-> "$15,000-30,000",
            roi |-> "200-400% within 12 months"] >>]

\* The inner try/catch of generatePlan: the plan handed to setGeneratedPlan.
\* source and cause are bookkeeping: where the plan came from and why.
synthesize(data, o) ==
    LET response == callClaudeAPI(o)
        parsed == JSONparse(response.value)
    IN  IF response.ok /\ parsed.ok
          THEN [plan |-> parsed.value, source |-> "ai", response |-> response,
                cause |-> "ok"]
        ELSE [plan |-> JObject(fallbackPlan(data)), source |-> "fallback",
              response |-> response,
              cause |-> IF response.ok THEN "parse"
                        ELSE IF o.arrived THEN "relay" ELSE "transport"]

----------------------------------------------------------------------------
(* The wizard flow controller: BusinessWizard *)

\* useState(1), useState({}), useState(null), useState(false)
InitWizard ==
    [currentStep |-> 1, formData |-> EmptyObj, generatedPlan |-> JNull, loading |-> FALSE]

\* The new data replacing the answers instead of being merged into them.
Merge_replace(prev, newData) == newData

\* { ...prev, ...newData }
Merge(prev, newData) ==
    [k \in DOMAIN prev \cup DOMAIN newData |->
        IF k \in DOMAIN newData THEN newData[k] ELSE prev[k]]

updateFormData(w, newData) ==
    [w EXCEPT !.formData = Merge(w.formData, newData)]

\* handleNext refusing to advance while the business name is missing.
handleNext_required(w) ==
    IF w.currentStep < N /\ "businessName" \in DOMAIN w.formData
      THEN [w EXCEPT !.currentStep = w.currentStep + 1]
    ELSE w

\* handleNext with the bound test off by one.
handleNext_pastLast(w) ==
    IF w.currentStep <= N THEN [w EXCEPT !.currentStep = w.currentStep + 1] ELSE w

\* handleNext below the last step; at the last step it calls generatePlan
\* (action HandleNextGenerate).
handleNext(w) ==
    IF w.currentStep < N THEN [w EXCEPT !.currentStep = w.currentStep + 1] ELSE w

\* handlePrevious without its test for the first step.
handlePrevious_unguarded(w) == [w EXCEPT !.currentStep = w.currentStep - 1]

handlePrevious(w) ==
    IF w.currentStep > 1 THEN [w EXCEPT !.currentStep = w.currentStep - 1] ELSE w

\* The Next button left enabled while a plan is being generated.
NextDisabled_never(w) == FALSE

\* disabled={loading} on the Next / Generate Strategy button
NextDisabled(w) == w.loading

\* What BusinessWizard returns from render
WizardRender(w) ==
    IF Truthy(w.generatedPlan) THEN "PlanDisplay" ELSE "StepForm"

\* What AIBusinessPlatform returns from render; the 'ai-tool-wizard' view has
\* no branch of its own and falls through to the home page.
Screen ==
    CASE currentView = "business-wizard" -> WizardRender(wizard)
      [] currentView = "dashboard" -> "Dashboard"
      [] OTHER -> "Home"

\* The BusinessWizard instance `inst` is mounted.
Mounted == currentView = "business-wizard"

NoResolution ==
    [inst |-> 0, data |-> EmptyObj, plan |-> JNull, source |-> "none",
     cause |-> "none", response |-> [ok |-> FALSE, value |-> ""],
     stored |-> FALSE, exitedBefore |-> FALSE]

\* The record of a handler run: its name, the step it ran at, for a form
\* edit what was entered and what the edited key held before, for a
\* generatePlan resolution what it produced.
OpEdit(name, step, arg) ==
    [op |-> name, step |-> step, arg |-> arg, res |-> NoResolution]

Op(name, step) == OpEdit(name, step, EmptyObj)

\* What a key of the answers holds: absent keys read as `none`.
Held(data, key, none) ==
    [had |-> key \in DOMAIN data,
     prev |-> IF key \in DOMAIN data THEN data[key] ELSE none]

----------------------------------------------------------------------------
(* The plan and insight endpoint: /api/wizard/business *)

\* The JSON values inside a request body: a string, a number, a list of
\* strings, and a key that is not there.
JStr(s) == [type |-> "string", str |-> s, num |-> 0, items |-> << >>]

JNum(n) == [type |-> "number", str |-> "", num |-> n, items |-> << >>]

JStrs(l) == [type |-> "array", str |-> "", num |-> 0, items |-> l]

Undefined == [type |-> "undefined", str |-> "", num |-> 0, items |-> << >>]

\* The keys of businessDataSchema.data by their declared type.
StringKeys ==
    { "businessName", "industry", "targetMarket", "currentRevenue",
      "marketPosition", "budget", "timeline", "teamReadiness",
      "successCriteria", "reportingFrequency" }

ArrayKeys ==
    { "primaryChallenges", "timeWasters", "costCenters", "competitors",
      "differentiators", "aiGoals", "kpis" }

\* The request bodies explored.  A body is not JSON, is the JSON value
\* null, or is a JSON object with action, data and step each present or not.
BodyActions ==
    { Undefined, JStr("stepInsights"), JStr("generatePlan"), JStr("deletePlan"),
      JNum(1) }

BodySteps ==
    { Undefined, JStr("2") } \cup { JNum(n) : n \in -1..6 }

DataKeys == {"businessName", "industry", "primaryChallenges"}

DataFieldValues(key) ==
    CASE key = "businessName" -> { JStr("Acme"), JStr(""), JNum(5) }
      [] key = "industry" -> { JStr("Retail") }
      [] OTHER -> { JStrs(<<"slow">>), JStr("slow") }

DataObjects ==
    UNION { { f \in [K -> UNION { DataFieldValues(k) : k \in K }] :
                \A k \in K : f[k] \in DataFieldValues(k) } :
            K \in SUBSET DataKeys }

BodyData ==
    { [type |-> "undefined", obj |-> EmptyObj], [type |-> "string", obj |-> EmptyObj] }
    \cup { JObject(f) : f \in DataObjects }

NoFields == [action |-> Undefined, data |-> [type |-> "undefined", obj |-> EmptyObj],
             step |-> Undefined]

Bodies ==
    { [kind |-> "unparseable", fields |-> NoFields],
      [kind |-> "null", fields |-> NoFields] }
    \cup { [kind |-> "object", fields |-> [action |-> a, data |-> d, step |-> s]] :
             a \in BodyActions, d \in BodyData, s \in BodySteps }

\* A schema that lets a step of any type through.
businessDataSchema_anyStep(body) ==
    /\ body.kind = "object"
    /\ body.fields.action.type = "string"
    /\ body.fields.action.str \in {"stepInsights", "generatePlan"}
    /\ body.fields.data.type = "object"
    /\ \A k \in DOMAIN body.fields.data.obj :
          /\ k \in StringKeys => body.fields.data.obj[k].type = "string"
          /\ k \in ArrayKeys => body.fields.data.obj[k].type = "array"

\* businessDataSchema.parse(await request.json()) returns, it does not throw.
businessDataSchema(body) ==
    /\ body.kind = "object"
    /\ body.fields.action.type = "string"
    /\ body.fields.action.str \in {"stepInsights", "generatePlan"}
    /\ body.fields.data.type = "object"
    /\ \A k \in DOMAIN body.fields.data.obj :
          /\ k \in StringKeys => body.fields.data.obj[k].type = "string"
          /\ k \in ArrayKeys => body.fields.data.obj[k].type = "array"
    /\ body.fields.step.type \in {"undefined", "number"}

\* The data the schema returns: the declared keys that are there.
ParsedData(body) ==
    [k \in DOMAIN body.fields.data.obj \cap (StringKeys \cup ArrayKeys) |->
        body.fields.data.obj[k]]

\* The step handed on as it came, 0 for an absent one.
StepOrOne_asGiven(step) == step.num

\* step || 1
StepOrOne(step) ==
    IF step.type = "undefined" \/ step.num = 0 THEN 1 ELSE step.num

insights ==
    [s \in 1..5 |->
        CASE s = 1 -> "Based on your business foundation, consider focusing on B2B automation tools to scale efficiently."
          [] s = 2 -> "Your challenges suggest high potential for AI-driven process automation and customer service bots."
          [] s = 3 -> "Your competitive position indicates opportunities for AI-powered differentiation strategies."
          [] s = 4 -> "Your AI goals align well with quick-win opportunities in customer service and data analytics."
          [] OTHER -> "Your success metrics suggest focusing on measurable ROI from AI implementations."]

generateStepInsights(data, step) ==
    [status |-> 200,
     body |-> [insights |-> IF step \in DOMAIN insights THEN insights[step]
                            ELSE "Continue to the next step for more insights.",
               suggestions |-> << "Consider implementing chatbot automation",
                                  "Focus on data analytics for competitive advantage",
                                  "Automate repetitive customer service tasks" >>]]

\* data[key] || generic
OrGeneric(data, key, generic) ==
    IF key \in DOMAIN data /\ data[key].str # "" THEN data[key].str ELSE generic

\* The plan of the endpoint: the executive summary is the template literal,
\* every other section is fixed text, held here as its number of entries.
generateBusinessPlan(data) ==
    [status |-> 200,
     body |-> [plan |->
        [executiveSummary |->
            << "Transform ", OrGeneric(data, "businessName", "your business"),
               " into an AI-powered ", OrGeneric(data, "industry", "industry"),
               " leader through strategic automation, intelligent customer engagement, and data-driven decision making." >>,
         quickWins |-> 3, strategicInitiatives |-> 3, implementationRoadmap |-> 3,
         techStack |-> 4, successMetrics |-> 4, competitiveAdvantages |-> 5,
         riskMitigation |-> 3]]]

BusinessRoutePOST(body) ==
    IF ~businessDataSchema(body)
      THEN [status |-> 500, body |-> [error |-> "Internal server error"]]
    ELSE IF body.fields.action.str = "stepInsights"
      THEN generateStepInsights(ParsedData(body), StepOrOne(body.fields.step))
    ELSE IF body.fields.action.str = "generatePlan"
      THEN generateBusinessPlan(ParsedData(body))
    ELSE [status |-> 400, body |-> [error |-> "Invalid action"]]

\* The query strings explored: no id parameter, and id with a value.
Queries ==
    { [has |-> FALSE, id |-> ""] }
    \cup { [has |-> TRUE, id |-> v] : v \in {"", "0", "p1", "null"} }

\* The plan id refused only when the parameter is not there.
BusinessRouteGET_absentOnly(q) ==
    IF ~q.has
      THEN [status |-> 400, body |-> [error |-> "Plan ID required"]]
    ELSE [status |-> 404, body |-> [plan |-> JNull, message |-> "Plan not found"]]

\* planId = searchParams.get('id') is null without the parameter; !planId
\* holds for null and for the empty string.
BusinessRouteGET(q) ==
    IF ~q.has \/ q.id = ""
      THEN [status |-> 400, body |-> [error |-> "Plan ID required"]]
    ELSE [status |-> 404, body |-> [plan |-> JNull, message |-> "Plan not found"]]

----------------------------------------------------------------------------
(* The suggestion assistant: AIAssistant *)

\* useState<string[]>([]), useState(false).  The state of suggestions tells
\* whether it is a list and, if so, its entries.
InitAssistant ==
    [suggestions |-> [list |-> TRUE, items |-> << >>], loading |-> FALSE]

\* The replies explored for a suggestion request, besides those explored
\* for a plan request: JSON arrays of suggestions.
SuggestionTexts == { "[\"a\",\"b\",\"c\"]", "[\"a\"]" }

SuggestionOutcomes ==
    RelayOutcomes
    \cup { [arrived |-> TRUE, keyConfigured |-> TRUE,
            provider |-> [kind |-> "text", status |-> 200, text |-> t]] :
              t \in SuggestionTexts }

\* JSON.parse(response) and Array.isArray(parsed): whether the text parses,
\* whether the value is an array and, if so, its entries.
ParseSuggestions(text) ==
    CASE text = "[\"a\",\"b\",\"c\"]" ->
           [ok |-> TRUE, isArray |-> TRUE, items |-> <<"a", "b", "c">>]
      [] text = "[\"a\"]" ->
           [ok |-> TRUE, isArray |-> TRUE, items |-> <<"a">>]
      [] OTHER ->
           [ok |-> JSONparse(text).ok,
            isArray |-> JSONparse(text).ok /\ JSONparse(text).value.type = "array",
            items |-> << >>]

\* The list of the catch block.
FallbackSuggestions ==
    << "Consider implementing AI chatbots for customer service automation",
       "Use AI for predictive analytics to optimize your operations",
       "Implement AI-powered content generation for marketing" >>

\* The parsed value stored whether or not it is an array.
generateSuggestions_noArrayTest(response) ==
    IF response.ok /\ ParseSuggestions(response.value).ok
      THEN [list |-> ParseSuggestions(response.value).isArray,
            items |-> ParseSuggestions(response.value).items]
    ELSE [list |-> TRUE, items |-> FallbackSuggestions]

\* The try/catch of generateSuggestions: the value handed to setSuggestions
\* for the result of callClaudeAPI.
generateSuggestions(response) ==
    IF response.ok /\ ParseSuggestions(response.value).ok
      THEN [list |-> TRUE,
            items |-> IF ParseSuggestions(response.value).isArray
                        THEN ParseSuggestions(response.value).items
                      ELSE << >>]
    ELSE [list |-> TRUE, items |-> FallbackSuggestions]

\* "Get AI Suggestions": disabled={loading}
SuggestDisabled(a) == a.loading

----------------------------------------------------------------------------
(* The record of the last HTTP exchange *)

\* No route handler has served a request yet.
NoExchange == [route |-> "none", input |-> EmptyObj, response |-> EmptyObj]

----------------------------------------------------------------------------
(* Actions *)

Init ==
    /\ currentView = "home"
    /\ completedData = JNull
    /\ inst = 0
    /\ wizard = InitWizard
    /\ pending = {}
    /\ genCalls = [i \in Instances |-> 0]
    /\ relayRequests = [i \in Instances |-> 0]
    /\ exited = {}
    /\ lastOp = Op("init", 0)
    /\ http = NoExchange
    /\ assistant = InitAssistant
    /\ asking = {}

\* Home page: onClick={() => setCurrentView('business-wizard')}; the wizard
\* mounts as a new instance.
StartBusinessWizard ==
    /\ Screen = "Home"
    /\ inst < MaxSessions
    /\ currentView' = "business-wizard"
    /\ inst' = inst + 1
    /\ wizard' = InitWizard
    /\ lastOp' = Op("startBusinessWizard", 0)
    /\ assistant' = InitAssistant
    /\ UNCHANGED <<completedData, pending, genCalls, relayRequests, exited, http, asking>>

\* Home page: onClick={() => setCurrentView('ai-tool-wizard')}
StartAiToolWizard ==
    /\ Screen = "Home"
    /\ currentView' = "ai-tool-wizard"
    /\ lastOp' = Op("startAiToolWizard", 0)
    /\ UNCHANGED <<completedData, inst, wizard, pending, genCalls, relayRequests, exited, http, assistant, asking>>

\* "Back to Home" of the wizard view and of the dashboard view:
\* onClick={() => setCurrentView('home')}.  Leaving the wizard view unmounts
\* the wizard instance and its state is gone.
BackToHome ==
    /\ currentView \in {"business-wizard", "dashboard"}
    /\ currentView' = "home"
    /\ wizard' = InitWizard
    /\ exited' = IF Mounted /\ ~Truthy(wizard.generatedPlan)
                   THEN exited \cup {inst} ELSE exited
    /\ lastOp' = Op("backToHome", 0)
    /\ assistant' = InitAssistant
    /\ UNCHANGED <<completedData, inst, pending, genCalls, relayRequests, http, asking>>

\* A field of the rendered step form calls onChange({key: value}).
UpdateField ==
    /\ Screen = "StepForm"
    /\ \E key \in StepFields(wizard.currentStep) :
         \E value \in FieldValues(key) :
            /\ wizard' = updateFormData(wizard, [k \in {key} |-> value])
            /\ lastOp' = OpEdit("updateFormData", wizard.currentStep,
                                [key |-> key, value |-> value,
                                 old |-> Held(wizard.formData, key, "")])
    /\ UNCHANGED <<currentView, completedData, inst, pending, genCalls, relayRequests, exited, http, assistant, asking>>

\* Enter pressed in the input of a rendered tag field.
AddTag ==
    /\ Screen = "StepForm"
    /\ \E key \in StepFields(wizard.currentStep) \cap TagFields :
         \E typed \in TagInputs :
            LET e == TagEnter(wizard.formData, key, typed)
            IN  /\ wizard' = IF e.called
                               THEN updateFormData(wizard, [k \in {key} |-> e.list])
                               ELSE wizard
                /\ lastOp' = OpEdit("addTag", wizard.currentStep,
                                    [key |-> key, typed |-> typed,
                                     old |-> Held(wizard.formData, key, << >>)])
    /\ UNCHANGED <<currentView, completedData, inst, pending, genCalls, relayRequests, exited, http, assistant, asking>>

\* Click on the x of the tag rendered at `index` of a tag field.
RemoveTag ==
    /\ Screen = "StepForm"
    /\ \E key \in (StepFields(wizard.currentStep) \cap TagFields) \cap DOMAIN wizard.formData :
         \E index \in 0..(Len(wizard.formData[key]) - 1) :
            /\ wizard' = updateFormData(wizard,
                            [k \in {key} |-> TagRemove(wizard.formData[key], index)])
            /\ lastOp' = OpEdit("removeTag", wizard.currentStep,
                                [key |-> key, index |-> index,
                                 old |-> Held(wizard.formData, key, << >>)])
    /\ UNCHANGED <<currentView, completedData, inst, pending, genCalls, relayRequests, exited, http, assistant, asking>>

\* Click on Next below the last step.
HandleNext ==
    /\ Screen = "StepForm"
    /\ ~NextDisabled(wizard)
    /\ wizard.currentStep < N
    /\ wizard' = handleNext(wizard)
    /\ lastOp' = Op("handleNext", wizard.currentStep)
    /\ UNCHANGED <<currentView, completedData, inst, pending, genCalls, relayRequests, exited, http, assistant, asking>>

\* Click on Generate Strategy at the last step: handleNext calls
\* generatePlan(formData), which runs to its await: setLoading(true), the
\* prompt is built and callClaudeAPI sends its one request.
HandleNextGenerate ==
    /\ Screen = "StepForm"
    /\ ~NextDisabled(wizard)
    /\ ~(wizard.currentStep < N)
    /\ wizard' = [handleNext(wizard) EXCEPT !.loading = TRUE]
    /\ pending' = pending \cup {[inst |-> inst, data |-> wizard.formData]}
    /\ genCalls' = [genCalls EXCEPT ![inst] = @ + 1]
    /\ relayRequests' = [relayRequests EXCEPT ![inst] = @ + 1]
    /\ lastOp' = Op("generatePlan", wizard.currentStep)
    /\ UNCHANGED <<currentView, completedData, inst, exited, http, assistant, asking>>

\* Click on Previous.  The button is disabled at step 1, where the handler
\* would change nothing.
HandlePrevious ==
    /\ Screen = "StepForm"
    /\ wizard' = handlePrevious(wizard)
    /\ lastOp' = Op("handlePrevious", wizard.currentStep)
    /\ UNCHANGED <<currentView, completedData, inst, pending, genCalls, relayRequests, exited, http, assistant, asking>>

\* The dashboard shown with the stored answers cleared.
handleBusinessComplete_cleared(data) ==
    [completedData |-> JNull, currentView |-> "dashboard"]

\* handleBusinessComplete(data): setCompletedData(data),
\* setCurrentView('dashboard').
handleBusinessComplete(data) ==
    [completedData |-> JObject(data), currentView |-> "dashboard"]

\* The answers read from the wizard when generatePlan resumes.
SubmittedData_live(c, w) == w.formData

\* The parameter `data` of generatePlan(data): the formData handleNext
\* handed over, bound for the whole call.
SubmittedData(c, w) == c.data

\* The pending callClaudeAPI of a generatePlan call settles and generatePlan
\* runs to its end: setGeneratedPlan(plan or fallbackPlan), onComplete(data)
\* (handleBusinessComplete: setCompletedData(data), setCurrentView('dashboard'))
\* and, in finally, setLoading(false).  The parent's setters always act.  The
\* wizard's setters address the instance that issued the call; the view
\* change of the same update unmounts whichever instance is mounted, so no
\* wizard state survives the step.  res.stored tells whether
\* setGeneratedPlan reached a mounted instance.
GeneratePlanResolve ==
    \E c \in pending : \E o \in RelayOutcomes :
        LET data == SubmittedData(c, wizard)
            r == synthesize(data, o)
            alive == Mounted /\ c.inst = inst
        IN  /\ wizard' = InitWizard
            /\ completedData' = handleBusinessComplete(data).completedData
            /\ currentView' = handleBusinessComplete(data).currentView
            /\ pending' = pending \ {c}
            /\ lastOp' = [op |-> "generatePlanResolve", step |-> 0,
                          arg |-> EmptyObj,
                          res |-> [inst |-> c.inst, data |-> data, plan |-> r.plan,
                                   source |-> r.source, cause |-> r.cause,
                                   response |-> r.response,
                                   stored |-> alive,
                                   exitedBefore |-> c.inst \in exited]]
            /\ assistant' = InitAssistant
            /\ UNCHANGED <<inst, genCalls, relayRequests, exited, http, asking>>

Next ==
    \/ StartBusinessWizard
    \/ StartAiToolWizard
    \/ BackToHome
    \/ UpdateField
    \/ HandleNext
    \/ HandleNextGenerate
    \/ HandlePrevious
    \/ GeneratePlanResolve

Spec == Init /\ [][Next]_vars

\* The form-editing runs: sessions in which the tag fields are filled too
\* and no plan generation is started.
NextForm ==
    \/ StartBusinessWizard
    \/ BackToHome
    \/ UpdateField
    \/ AddTag
    \/ RemoveTag
    \/ HandleNext
    \/ HandlePrevious

SpecForm == Init /\ [][NextForm]_vars

\* Click on "Get AI Suggestions" of the assistant rendered with the step
\* form: generateSuggestions runs to its await, setLoading(true) and the
\* request of callClaudeAPI is out.
GenerateSuggestions ==
    /\ Screen = "StepForm"
    /\ ~SuggestDisabled(assistant)
    /\ assistant' = [assistant EXCEPT !.loading = TRUE]
    /\ asking' = asking \cup {inst}
    /\ lastOp' = Op("generateSuggestions", wizard.currentStep)
    /\ UNCHANGED <<currentView, completedData, inst, wizard, pending, genCalls,
                   relayRequests, exited, http>>

\* The pending callClaudeAPI of a generateSuggestions call settles and the
\* call runs to its end: setSuggestions, and in finally setLoading(false).
\* The setters address the assistant that issued the call; when it is no
\* longer mounted they change nothing.
SuggestionsResolveOf(i) ==
    /\ i \in asking
    /\ \E o \in SuggestionOutcomes :
        LET response == callClaudeAPI(o)
            alive == Mounted /\ i = inst
        IN  /\ assistant' = IF alive
                                THEN [suggestions |-> generateSuggestions(response),
                                      loading |-> FALSE]
                              ELSE assistant
            /\ asking' = asking \ {i}
            /\ lastOp' = OpEdit("suggestionsResolve", 0,
                                [inst |-> i, response |-> response, stored |-> alive])
            /\ UNCHANGED <<currentView, completedData, inst, wizard, pending,
                           genCalls, relayRequests, exited, http>>

SuggestionsResolve == \E i \in Instances : SuggestionsResolveOf(i)

\* The runs with the assistant: form editing and suggestion requests.  Each
\* request sent by callClaudeAPI settles in the end, with a response or
\* with an error.
NextAssist ==
    \/ StartBusinessWizard
    \/ BackToHome
    \/ UpdateField
    \/ HandleNext
    \/ HandlePrevious
    \/ GenerateSuggestions
    \/ SuggestionsResolve

SpecAssist ==
    /\ Init
    /\ [][NextAssist]_vars
    /\ \A i \in Instances : WF_vars(SuggestionsResolveOf(i))

\* The route handlers serving requests: each request is served on its own,
\* no handler keeps state between requests.
Others == <<currentView, completedData, inst, wizard, pending, genCalls,
            relayRequests, exited, lastOp, assistant, asking>>

ClaudePOST ==
    /\ \E req \in RelayBodies : \E k \in BOOLEAN : \E p \in ProviderOutcomes :
          http' = [route |-> "POST /api/claude",
                   input |-> [req |-> req, keyConfigured |-> k, provider |-> p],
                   response |-> ClaudeRoutePOST(req, k, p)]
    /\ UNCHANGED Others

BusinessPOST ==
    /\ \E body \in Bodies :
          http' = [route |-> "POST /api/wizard/business",
                   input |-> body,
                   response |-> BusinessRoutePOST(body)]
    /\ UNCHANGED Others

BusinessGET ==
    /\ \E q \in Queries :
          http' = [route |-> "GET /api/wizard/business",
                   input |-> q,
                   response |-> BusinessRouteGET(q)]
    /\ UNCHANGED Others

NextApi ==
    \/ ClaudePOST
    \/ BusinessPOST
    \/ BusinessGET

SpecApi == Init /\ [][NextApi]_vars

----------------------------------------------------------------------------
(* Properties *)

Resolved == lastOp.op = "generatePlanResolve"

HasPending(i) == \E c \in pending : c.inst = i

\* C1: in every reachable state currentStep is an integer between 1 and N
\* (the number of step definitions): it is never decremented below 1 and
\* never advanced past N.
C1_StepInRange == wizard.currentStep \in 1..N

\* Advance ran at step N (and started the generation) and the step is still N.
C1_AdvanceAtLastStep ==
    /\ lastOp = Op("generatePlan", N)
    /\ wizard.currentStep = N

\* C2: within one wizard session advance at step N triggers exactly one
\* Plan Synthesizer call, which issues exactly one relay request and is
\* never retried; isGenerating is true exactly while that call is pending
\* (false before, true during, false after), and no second call is issued
\* while one is pending.
C2_OneGenerationPerSession ==
    /\ [](/\ \A i \in Instances :
                /\ genCalls[i] <= 1
                /\ relayRequests[i] = genCalls[i]
                /\ Cardinality({c \in pending : c.inst = i}) <= 1
                /\ HasPending(i) => genCalls[i] = 1
          /\ Mounted => (wizard.loading <=> HasPending(inst))
          /\ ~Mounted => ~wizard.loading)
    /\ [][/\ lastOp'.op = "generatePlan" =>
                /\ wizard.currentStep = N
                /\ ~wizard.loading /\ wizard'.loading
                /\ genCalls'[inst] = genCalls[inst] + 1
                /\ Cardinality(pending') = Cardinality(pending) + 1
          /\ (lastOp'.op # "generatePlan" /\ inst' = inst) => genCalls' = genCalls
          /\ (wizard.loading /\ lastOp'.op = "generatePlanResolve"
                /\ lastOp'.res.inst = inst) => ~wizard'.loading]_vars

\* The session's one call has been made and has resolved while the session
\* was mounted: isGenerating is false again and no call is pending.
C2_CallMadeAndResolved ==
    /\ Resolved /\ lastOp.res.stored
    /\ genCalls[lastOp.res.inst] = 1
    /\ relayRequests[lastOp.res.inst] = 1
    /\ ~wizard.loading
    /\ pending = {}

\* The named sections of a GeneratedPlan are all present.
ValidPlan(p) == p.type = "object" /\ PlanSections \subseteq DOMAIN p.obj

\* C3: for every AnswerRecord and every relay outcome generatePlan ends
\* with a structurally valid, non-absent GeneratedPlan stored in plan and
\* with completion signalled to the parent.
C3_AlwaysValidPlan ==
    Resolved =>
        /\ Truthy(lastOp.res.plan)
        /\ ValidPlan(lastOp.res.plan)
        /\ completedData = JObject(lastOp.res.data)
        /\ currentView = "dashboard"

\* C4: the plan handed over has the same set of named sections
\* (executiveSummary, quickWins, strategicInitiatives, implementationRoadmap,
\* techStack, successMetrics) when it is the static fallback as when it is
\* the AI response of the requested shape.
C4_FallbackHasPlanShape ==
    (Resolved /\ lastOp.res.source = "fallback") =>
        DOMAIN lastOp.res.plan.obj = PlanSections

\* The relay answered with text that parses into the expected plan structure.
ExpectedStructure(response) ==
    /\ response.ok
    /\ JSONparse(response.value).ok
    /\ ValidPlan(JSONparse(response.value).value)

\* C5: a relay response whose text does not parse into the expected plan
\* structure (malformed text, or well-formed JSON without the expected keys)
\* is handled like a transport failure: the plan is the static fallback.
C5_ParseFailureGivesFallback ==
    (Resolved /\ lastOp.res.response.ok /\ ~ExpectedStructure(lastOp.res.response)) =>
        lastOp.res.plan = JObject(fallbackPlan(lastOp.res.data))

\* The string made of the pieces contains the piece x.
Contains(pieces, x) == \E i \in 1..Len(pieces) : pieces[i] = x

\* The value supplied for a key, or the generic phrasing when it is absent.
SuppliedOr(data, key, generic) ==
    IF key \in DOMAIN data /\ data[key] # "" THEN data[key] ELSE generic

\* C6: when the relay fails the plan is the static fallback parameterized by
\* business name and industry: its executiveSummary contains the supplied
\* businessName and industry, or the generic phrasing for each one that is
\* absent, and quickWins has at least one entry.
C6_FallbackNamesBusinessAndIndustry ==
    (Resolved /\ ~lastOp.res.response.ok) =>
        /\ lastOp.res.plan = JObject(fallbackPlan(lastOp.res.data))
        /\ Contains(lastOp.res.plan.obj.executiveSummary,
                    SuppliedOr(lastOp.res.data, "businessName", "your business"))
        /\ Contains(lastOp.res.plan.obj.executiveSummary,
                    SuppliedOr(lastOp.res.data, "industry", "industry"))
        /\ Len(lastOp.res.plan.obj.quickWins) >= 1

\* C7: retreat at step 1 leaves the whole controller state unchanged;
\* retreat at a later step decrements currentStep by exactly 1 and leaves
\* answers, plan and isGenerating unchanged.
C7_Retreat ==
    [][lastOp'.op = "handlePrevious" =>
          /\ wizard.currentStep = 1 => wizard' = wizard
          /\ wizard.currentStep > 1 =>
                wizard' = [wizard EXCEPT !.currentStep = wizard.currentStep - 1]
          /\ wizard'.formData = wizard.formData
          /\ wizard'.generatedPlan = wizard.generatedPlan
          /\ wizard'.loading = wizard.loading
          /\ UNCHANGED <<currentView, completedData, inst, pending>>]_vars

\* Retreat ran at step 1 of a session that has answers.
C7_RetreatAtFirstStep ==
    /\ lastOp = Op("handlePrevious", 1)
    /\ wizard.currentStep = 1
    /\ DOMAIN wizard.formData # {}

\* C8: while a generation request is pending the wizard's user-visible state
\* does not change: no updateField, advance or retreat takes effect and the
\* view does not change until the request resolves.
C8_NothingWhilePending ==
    /\ (Mounted /\ wizard.loading) => lastOp.op = "generatePlan"
    /\ lastOp.op = "backToHome" => ~HasPending(inst)

\* C9: the AnswerRecord of a session the user exits before a plan has been
\* produced is discarded: it is never delivered to the parent as completed
\* data and the session causes no later view transition; a wizard started
\* afterwards begins at step 1 with an empty AnswerRecord.
C9_ExitedSessionDiscarded ==
    /\ Resolved => ~lastOp.res.exitedBefore
    /\ lastOp.op = "startBusinessWizard" => wizard = InitWizard

\* C10: once plan is set in a session the step forms are not rendered
\* again and the plan display is what is rendered.
C10_PlanDisplayRendered ==
    (Resolved /\ lastOp.res.stored) => Screen = "PlanDisplay"

\* C11: updateField(key, value) is a shallow key-by-key merge: after it
\* answers[key] equals value exactly, every other key of answers is
\* unchanged, and currentStep, plan and isGenerating are unchanged; a later
\* updateField on the same key overwrites the earlier value.
C11_ShallowMerge ==
    [][lastOp'.op = "updateFormData" =>
          LET key == lastOp'.arg.key
              value == lastOp'.arg.value
          IN  /\ DOMAIN wizard'.formData = DOMAIN wizard.formData \cup {key}
              /\ wizard'.formData[key] = value
              /\ \A k \in DOMAIN wizard.formData \ {key} :
                    wizard'.formData[k] = wizard.formData[k]
              /\ wizard'.currentStep = wizard.currentStep
              /\ wizard'.generatedPlan = wizard.generatedPlan
              /\ wizard'.loading = wizard.loading
              /\ UNCHANGED <<currentView, completedData, inst, pending>>]_vars

\* A business name typed over an earlier one, next to another answer.
C11_Overwritten ==
    /\ lastOp.op = "updateFormData"
    /\ lastOp.arg.key = "businessName"
    /\ lastOp.arg.old = [had |-> TRUE, prev |-> "Acme"]
    /\ lastOp.arg.value = "Bolt"
    /\ DOMAIN wizard.formData = {"businessName", "industry"}
    /\ wizard.formData["businessName"] = "Bolt"

NoDuplicates(list) ==
    \A i, j \in 1..Len(list) : i # j => list[i] # list[j]

\* The tag a typed text stands for: the text without the blanks around it
\* (the typed texts explored have no blank inside).
TagOf(typed) == SelectSeq(typed, LAMBDA ch : ch # " ")

TagList(data, key) == IF key \in DOMAIN data THEN data[key] ELSE << >>

\* C12: after any sequence of tag additions and removals the ordered tag
\* list has no duplicates: appending a tag already in the list changes
\* nothing, appending a new tag puts it at the end, and removing the tag at
\* index i yields the list without that element, the others in their order.
C12_TagList ==
    /\ [](\A key \in TagFields : NoDuplicates(TagList(wizard.formData, key)))
    /\ [][/\ lastOp'.op = "addTag" =>
                LET key == lastOp'.arg.key
                    tag == TagOf(lastOp'.arg.typed)
                    old == TagList(wizard.formData, key)
                IN  IF \E i \in 1..Len(old) : old[i] = tag
                      THEN wizard' = wizard
                    ELSE IF tag = << >>
                      THEN wizard' = wizard
                    ELSE /\ wizard'.formData[key] = Append(old, tag)
                         /\ \A k \in DOMAIN wizard.formData \ {key} :
                               wizard'.formData[k] = wizard.formData[k]
          /\ lastOp'.op = "removeTag" =>
                LET key == lastOp'.arg.key
                    at == lastOp'.arg.index + 1
                    old == TagList(wizard.formData, key)
                    new == TagList(wizard'.formData, key)
                IN  /\ at \in 1..Len(old)
                    /\ Len(new) = Len(old) - 1
                    /\ \A j \in 1..Len(new) :
                          new[j] = IF j < at THEN old[j] ELSE old[j + 1]]_vars

\* A tag typed with blanks around it is already in a list of three tags and
\* the list stays as it was.
C12_DuplicateIgnored ==
    /\ lastOp.op = "addTag"
    /\ lastOp.arg.typed = <<" ", "a", " ">>
    /\ Len(lastOp.arg.old.prev) = 3
    /\ wizard.formData["primaryChallenges"] = lastOp.arg.old.prev
    /\ \E i \in 1..3 : lastOp.arg.old.prev[i] = <<"a">>

IsBusinessPOST == http.route = "POST /api/wizard/business"

IsBusinessGET == http.route = "GET /api/wizard/business"

IsClaudePOST == http.route = "POST /api/claude"

\* A well-formed stepInsights request was served.
StepInsightsServed ==
    /\ IsBusinessPOST
    /\ http.input.kind = "object"
    /\ http.input.fields.action = JStr("stepInsights")
    /\ http.input.fields.data.type = "object"
    /\ \A k \in DOMAIN http.input.fields.data.obj :
          http.input.fields.data.obj[k].type =
              (IF k \in ArrayKeys THEN "array" ELSE "string")
    /\ http.input.fields.step.type \in {"undefined", "number"}

GenericInsight == "Continue to the next step for more insights."

\* The insight of a response body, under whichever key it is returned.
InsightOf(body) ==
    IF "insight" \in DOMAIN body THEN body.insight
    ELSE IF "insights" \in DOMAIN body THEN body.insights
    ELSE ""

\* C13: for a stepInsights request every step in 1..5 yields the non-empty
\* insight fixed for that step and exactly 3 suggestions; every step value
\* outside 1..5, and an absent step, yields the generic "continue" insight
\* and the same 3 suggestions; the result is returned as
\* {insight, suggestions}.
C13_InsightByStep ==
    StepInsightsServed =>
        LET step == http.input.fields.step
            body == http.response.body
        IN  /\ http.response.status = 200
            /\ "suggestions" \in DOMAIN body
            /\ Len(body.suggestions) = 3
            /\ body.suggestions = generateStepInsights(EmptyObj, 1).body.suggestions
            /\ IF step.type = "number" /\ step.num \in 1..5
                 THEN /\ InsightOf(body) = insights[step.num]
                      /\ InsightOf(body) # ""
               ELSE InsightOf(body) = GenericInsight
            /\ DOMAIN body = {"insight", "suggestions"}

\* C13 (amended): for a stepInsights request every step in 1..5 yields the
\* non-empty insight fixed for that step, an absent step and the step 0
\* yield the insight of step 1, every other step value yields the generic
\* "continue" insight; the same 3 suggestions come with each, and the
\* result is returned as {insights, suggestions}.
C13_InsightByStepOrFirst ==
    StepInsightsServed =>
        LET step == http.input.fields.step
            body == http.response.body
        IN  /\ http.response.status = 200
            /\ DOMAIN body = {"insights", "suggestions"}
            /\ Len(body.suggestions) = 3
            /\ body.suggestions = generateStepInsights(EmptyObj, 1).body.suggestions
            /\ body.insights # ""
            /\ IF step.type = "number" /\ step.num \in 1..5
                 THEN /\ body.insights = insights[step.num]
                      /\ body.insights # GenericInsight
               ELSE IF step.type = "undefined" \/ step.num = 0
                 THEN body.insights = insights[1]
               ELSE body.insights = GenericInsight

\* A stepInsights request with no step is answered with the insight of
\* step 1.
C13_AbsentStepIsFirst ==
    /\ StepInsightsServed
    /\ http.input.fields.step = Undefined
    /\ http.response.status = 200
    /\ http.response.body.insights = insights[1]

\* C14: a GET with no id query parameter returns 400 with an error payload,
\* a GET with any id value returns 404 with a null plan and a "not found"
\* message; no GET returns a plan.
C14_GetByAnyId ==
    IsBusinessGET =>
        /\ ~http.input.has =>
              /\ http.response.status = 400
              /\ DOMAIN http.response.body = {"error"}
        /\ http.input.has =>
              /\ http.response.status = 404
              /\ DOMAIN http.response.body = {"plan", "message"}
              /\ http.response.body.plan = JNull
              /\ http.response.body.message = "Plan not found"
        /\ "plan" \in DOMAIN http.response.body => http.response.body.plan = JNull

\* C14 (amended): a GET with no id query parameter or with an empty id
\* returns 400 with an error payload, a GET with a non-empty id returns 404
\* with a null plan and a "not found" message; no GET returns a plan.
C14_GetByNonEmptyId ==
    IsBusinessGET =>
        /\ (~http.input.has \/ http.input.id = "") =>
              /\ http.response.status = 400
              /\ DOMAIN http.response.body = {"error"}
        /\ (http.input.has /\ http.input.id # "") =>
              /\ http.response.status = 404
              /\ DOMAIN http.response.body = {"plan", "message"}
              /\ http.response.body.plan = JNull
              /\ http.response.body.message = "Plan not found"
        /\ "plan" \in DOMAIN http.response.body => http.response.body.plan = JNull

\* A GET with ?id= and nothing after it is refused with 400.
C14_EmptyIdRefused ==
    /\ IsBusinessGET
    /\ http.input = [has |-> TRUE, id |-> ""]
    /\ http.response.status = 400
    /\ http.response.body.error = "Plan ID required"

\* A body malformed against the schema: unparseable JSON or not an object,
\* unknown or missing action, missing data or data that is no object, a
\* wrongly typed field, a wrongly typed step.
Malformed(body) ==
    \/ body.kind # "object"
    \/ body.fields.action.type # "string"
    \/ body.fields.action.str \notin {"stepInsights", "generatePlan"}
    \/ body.fields.data.type # "object"
    \/ \E k \in DOMAIN body.fields.data.obj :
          \/ k \in StringKeys /\ body.fields.data.obj[k].type # "string"
          \/ k \in ArrayKeys /\ body.fields.data.obj[k].type # "array"
    \/ body.fields.step.type \notin {"undefined", "number"}

\* C15: a POST to the plan/insight endpoint whose body is malformed against
\* the schema is rejected with HTTP 500 and the bare payload
\* {error: "Internal server error"}; no insight or plan is produced for it.
C15_MalformedRejected ==
    (IsBusinessPOST /\ Malformed(http.input)) =>
        /\ http.response.status = 500
        /\ http.response.body = [error |-> "Internal server error"]

\* A request that is well formed but for its step, a string.
C15_WrongStepTypeRejected ==
    /\ IsBusinessPOST
    /\ http.input.kind = "object"
    /\ http.input.fields.action = JStr("stepInsights")
    /\ http.input.fields.data = JObject([k \in {"businessName"} |-> JStr("Acme")])
    /\ http.input.fields.step = JStr("2")
    /\ http.response.status = 500
    /\ http.response.body = [error |-> "Internal server error"]

\* The causes of a relay failure: the request body cannot be read or
\* destructured, the credential is missing, the provider call throws or
\* returns a non-success status, the provider body cannot be read.
RelayFailureCause(in) ==
    \/ in.req \in {"unreadable", "null"}
    \/ ~in.keyConfigured
    \/ in.provider.kind \in {"network", "status", "statusbody", "badjson", "nocontent"}

\* C16: every request to the relay gets exactly one of two responses:
\* {success: true, content} when the provider call succeeds, or
\* {success: false, error, fallback: true} with HTTP 500 on any failure; at
\* most one provider request is sent per call, none when the credential is
\* missing.
C16_TwoResponses ==
    IsClaudePOST =>
        LET r == http.response
        IN  /\ IF RelayFailureCause(http.input)
                 THEN /\ r.status = 500
                      /\ DOMAIN r.body = {"success", "error", "fallback"}
                      /\ r.body.success = FALSE
                      /\ r.body.fallback = TRUE
                      /\ r.body.error # << >>
               ELSE /\ r.status = 200
                    /\ DOMAIN r.body = {"success", "content"}
                    /\ r.body.success = TRUE
                    /\ r.body.content # ""
            /\ r.sent \in {0, 1}
            /\ ~http.input.keyConfigured => r.sent = 0

\* A readable request is refused for want of the credential and nothing
\* was sent to the provider.
C16_NoCredentialNoRequest ==
    /\ IsClaudePOST
    /\ http.input.req = "prompt"
    /\ ~http.input.keyConfigured
    /\ http.input.provider.kind = "text"
    /\ http.response.status = 500
    /\ http.response.body.fallback
    /\ http.response.sent = 0

\* C17: the failure response of the relay is generic and independent of the
\* failure cause: two relay calls that fail for different reasons return the
\* same payload to the caller.
C17_FailurePayloadGeneric ==
    (IsClaudePOST /\ ~http.response.body.success) =>
        \A req \in RelayBodies : \A k \in BOOLEAN : \A p \in ProviderOutcomes :
            LET other == ClaudeRoutePOST(req, k, p)
            IN  ~other.body.success => other.body = http.response.body

C18_SnapshotFrozen ==
    [][/\ lastOp'.op = "generatePlan" =>
              \E c \in pending' \ pending :
                  c.inst = inst /\ c.data = wizard.formData
       /\ \A c \in pending :
              \/ c \in pending'
              \/ /\ lastOp'.op = "generatePlanResolve"
                 /\ lastOp'.res.inst = c.inst
                 /\ lastOp'.res.data = c.data
                 /\ completedData' = JObject(c.data)
                 /\ lastOp'.res.source = "fallback" =>
                        lastOp'.res.plan = JObject(fallbackPlan(c.data))]_vars

\* An answer was edited while the call of the mounted session is pending:
\* the answers now differ from the submitted record.
C18_EditedWhilePending ==
    /\ Mounted
    /\ wizard.loading
    /\ lastOp.op = "updateFormData"
    /\ \E c \in pending : c.inst = inst /\ c.data # wizard.formData

\* C19: handleNext below the last step increments currentStep by exactly 1,
\* issues no synthesizer call and leaves answers, plan and loading
\* unchanged; it is never blocked by missing required fields, so N advances
\* from the initial state with empty answers reach plan generation.
C19_AdvanceBelowLast ==
    [][lastOp'.op = "handleNext" =>
          /\ wizard.currentStep < N
          /\ wizard'.currentStep = wizard.currentStep + 1
          /\ wizard'.formData = wizard.formData
          /\ wizard'.generatedPlan = wizard.generatedPlan
          /\ wizard'.loading = wizard.loading
          /\ UNCHANGED <<currentView, completedData, inst, pending, genCalls,
                         relayRequests>>]_vars

\* Plan generation started at the last step with no answer given.
C19_EmptyAnswersReachGeneration ==
    /\ lastOp.op = "generatePlan"
    /\ lastOp.step = N
    /\ wizard.formData = EmptyObj
    /\ genCalls[inst] = 1
    /\ \E c \in pending : c.inst = inst /\ c.data = EmptyObj

\* C21: whenever the current view is the dashboard, completedData is
\* non-null and is the answers delivered by a wizard session's completion;
\* the dashboard is entered only through such a completion, and
\* completedData is never cleared afterwards.
C21_DashboardHoldsCompletion ==
    /\ [](/\ currentView = "dashboard" =>
                completedData # JNull /\ completedData.type = "object"
          /\ Resolved =>
                /\ currentView = "dashboard"
                /\ completedData = JObject(lastOp.res.data))
    /\ [][/\ (currentView' = "dashboard" /\ currentView # "dashboard") =>
                lastOp'.op = "generatePlanResolve"
          /\ completedData' # completedData =>
                /\ lastOp'.op = "generatePlanResolve"
                /\ completedData' = JObject(lastOp'.res.data)
          /\ completedData # JNull => completedData' # JNull]_vars

\* The dashboard shown on the completion of a session that gave its
\* business name and industry.
C21_DashboardAfterCompletion ==
    /\ currentView = "dashboard"
    /\ lastOp.op = "generatePlanResolve"
    /\ DOMAIN lastOp.res.data = {"businessName", "industry"}
    /\ completedData = JObject(lastOp.res.data)

\* The list a suggestion request leaves for the result of callClaudeAPI.
ExpectedSuggestions(response) ==
    IF ~response.ok THEN FallbackSuggestions
    ELSE IF ~ParseSuggestions(response.value).ok THEN FallbackSuggestions
    ELSE IF ParseSuggestions(response.value).isArray
      THEN ParseSuggestions(response.value).items
    ELSE << >>

\* C22: every suggestion request of the assistant eventually resolves with
\* loading back to false and suggestions set to a list: the parsed array on
\* success, the empty list when the response parses to a non-array, the
\* fixed 3-item list on any relay or parse failure; a second request cannot
\* start while one is loading, and no suggestion request changes the
\* wizard's currentStep, answers, plan or loading.
C22_SuggestionsResolve ==
    /\ [](/\ assistant.suggestions.list
          /\ assistant.loading => (Mounted /\ inst \in asking))
    /\ [][/\ lastOp'.op = "generateSuggestions" =>
                /\ ~assistant.loading
                /\ inst \notin asking
                /\ assistant'.loading
                /\ asking' = asking \cup {inst}
                /\ wizard' = wizard
          /\ lastOp'.op = "suggestionsResolve" =>
                /\ wizard' = wizard
                /\ lastOp'.arg.inst \in asking
                /\ asking' = asking \ {lastOp'.arg.inst}
                /\ lastOp'.arg.stored =>
                      /\ ~assistant'.loading
                      /\ assistant'.suggestions.list
                      /\ assistant'.suggestions.items =
                            ExpectedSuggestions(lastOp'.arg.response)
                      /\ Len(FallbackSuggestions) = 3]_vars
    /\ \A i \in Instances : (i \in asking) ~> (i \notin asking)
    /\ assistant.loading ~> ~assistant.loading

\* A request of the mounted assistant resolved with a JSON array of three
\* suggestions, which are now its suggestions.
C22_ParsedArrayStored ==
    /\ lastOp.op = "suggestionsResolve"
    /\ lastOp.arg.stored
    /\ lastOp.arg.response.ok
    /\ assistant.suggestions = [list |-> TRUE, items |-> <<"a", "b", "c">>]
    /\ ~assistant.loading

====
